---- MODULE Spec2Model ----
(***************************************************************************)
(* Loan-RAG backend: the multi-query retrieval engine                      *)
(* (ai_pipeline.enhanced_retrieve_docs), the query synthesizer             *)
(* (ai_pipeline.generate_targeted_queries) and the metric calculator of    *)
(* the /ask handler (main.ask_structured, calculate_lvr, calculate_dti).   *)
(*                                                                         *)
(* Text is modelled by TLA+ strings: Len, \o and SubSeq act on them as     *)
(* Python's len, + and slicing do.  Money amounts are integers.            *)
(***************************************************************************)
EXTENDS Integers, Sequences, FiniteSets, TLC

VARIABLES
    \* ---- enhanced_retrieve_docs ----
    rpc,          \* position: "idle", "loop", "done", "raised"
    retriever,    \* which vector retriever is plugged in: "contract" or "any"
    queries,      \* the argument queries
    k_per_query,  \* the argument k_per_query
    idx,          \* number of loop iterations completed
    all_docs,     \* local all_docs
    seen_hashes,  \* local seen_hashes
    responses,    \* history: what the retriever did for each query so far
    result,       \* the returned list
    \* ---- the request payload ----
    form_type,    \* payload.form_type.value
    form_data,    \* payload.form_data
    \* ---- generate_targeted_queries ----
    gpc,          \* position: "idle", "invoke", "done", "raised"
    loan_amount,  \* local loan_amount (the raw field value)
    prompt,       \* what is interpolated into query_prompt
    gen_response, \* history: what query_gen_model.invoke did
    gen_queries,  \* local queries after the try block
    all_queries,  \* the returned list all_queries[:10]
    \* ---- the metric computation of ask_structured ----
    mpc,          \* position: "idle", "done", "raised"
    metrics,      \* the locals of the computation, as far as it got
    metrics_log,  \* the results of the computations made on this record so far
    chain_input,  \* the formatted figures handed to run_credit_chain
    \* ---- retrieve_docs (the single-query retrieval) ----
    lpc,            \* position: "idle", "invoking", "done", "raised"
    legacy_query,   \* the query argument
    legacy_k,       \* the k argument
    legacy_calls,   \* how often retriever.invoke was called
    legacy_results, \* what retriever.invoke did
    legacy_return,  \* the returned list
    \* ---- one request of ask_structured ----
    calls,          \* the model and retriever calls made so far, in order
    \* ---- enhanced_retrieve_docs invoked by concurrent requests ----
    batches,        \* per invocation: its position, arguments and local variables
    \* ---- ask_structured after retrieval, and run_credit_chain ----
    apc,            \* position: "idle", "chain", "replied", "metrics_raised", "chain_raised"
    form_label,     \* chain_input["form_label"]
    policy_context, \* chain_input["policy_context"]
    chain_prompt,   \* the template run_credit_chain selected
    documents_used, \* the "documents_used" of the response
    prompt_log      \* history: the labels given to get_prompt_for_form and its results

rvars == <<rpc, retriever, queries, k_per_query, idx, all_docs, seen_hashes,
           responses, result>>

pvars == <<form_type, form_data>>

gvars == <<gpc, loan_amount, prompt, gen_response, gen_queries, all_queries>>

mvars == <<mpc, metrics, metrics_log, chain_input>>

lvars == <<lpc, legacy_query, legacy_k, legacy_calls, legacy_results, legacy_return>>

hvars == <<apc, form_label, policy_context, chain_prompt, documents_used, prompt_log>>

vars == <<rvars, pvars, gvars, mvars, lvars, calls, batches, hvars>>

----------------------------------------------------------------------------
(* Bounds of the model *)

MaxQueries == 3
NPlain == 30
OverReturn == 18
SmallK == 2
MaxGenerated == 10
MaxCalls == 2
MaxRequestGenerated == 2
MaxBatchQueries == 2
MaxPromptCalls == 2

(* Program constants *)

MaxDocs == 30
PrefixLen == 300
DefaultK == 4
MinQueryLen == 10
MaxQueriesOut == 10
PremiumThreshold == 3000000
LuxuryThreshold == 5000000
LegacyK == 25

----------------------------------------------------------------------------
(* Helpers *)

Min(a, b) == IF a < b THEN a ELSE b

RECURSIVE Rep(_, _)
Rep(s, n) ==
    IF n = 0 THEN ""
    ELSE IF n % 2 = 0 THEN LET half == Rep(s, n \div 2) IN half \o half
    ELSE s \o Rep(s, n - 1)

\* Python's seq[:n]
Take(seq, n) == SubSeq(seq, 1, Min(n, Len(seq)))

Char(s, i) == SubSeq(s, i, i)

IsSpace(c) == c \in {" ", "\t", "\n", "\r", "\f"}

\* The least element of a non-empty set of integers
Least(S) == CHOOSE i \in S : \A j \in S : i <= j
Greatest(S) == CHOOSE i \in S : \A j \in S : i >= j

\* str.strip(): from the first to the last character that is no blank
NonBlank(s) == {i \in 1..Len(s) : ~IsSpace(Char(s, i))}

strip(s) == IF NonBlank(s) = {} THEN "" ELSE SubSeq(s, Least(NonBlank(s)), Greatest(NonBlank(s)))

\* str.split(sep) for a one-character separator
SepAt(s, sep) == {i \in 1..Len(s) : Char(s, i) = sep}

RECURSIVE split(_, _)
split(s, sep) ==
    IF SepAt(s, sep) = {} THEN <<s>>
    ELSE LET i == Least(SepAt(s, sep)) IN
         <<SubSeq(s, 1, i - 1)>> \o split(SubSeq(s, i + 1, Len(s)), sep)

\* sep.join(parts)
RECURSIVE join(_, _)
join(sep, parts) ==
    IF parts = <<>> THEN ""
    ELSE IF Len(parts) = 1 THEN parts[1]
    ELSE parts[1] \o sep \o join(sep, Tail(parts))

\* str.lower() on ASCII letters
Upper == "ABCDEFGHIJKLMNOPQRSTUVWXYZ"
Lower == "abcdefghijklmnopqrstuvwxyz"

LowerChar(c) ==
    IF \E i \in 1..26 : Char(Upper, i) = c
    THEN Char(Lower, CHOOSE i \in 1..26 : Char(Upper, i) = c)
    ELSE c

RECURSIVE lower(_)
lower(s) == IF s = "" THEN "" ELSE LowerChar(Char(s, 1)) \o lower(SubSeq(s, 2, Len(s)))

\* sub in s
Contains(s, sub) ==
    \E i \in 1..(Len(s) - Len(sub) + 1) : SubSeq(s, i, i + Len(sub) - 1) = sub

Digits == <<"0", "1", "2", "3", "4", "5", "6", "7", "8", "9">>

\* str(n) of an int
RECURSIVE NatToStr(_)
NatToStr(n) == IF n < 10 THEN Digits[n + 1] ELSE NatToStr(n \div 10) \o Digits[(n % 10) + 1]

IntToStr(n) == IF n < 0 THEN "-" \o NatToStr(-n) ELSE NatToStr(n)

----------------------------------------------------------------------------
(* Values of form fields (JSON): None, a number, a string or a list.       *)

None == [t |-> "none", n |-> 0, s |-> ""]
Num(n) == [t |-> "num", n |-> n, s |-> ""]
Str(s) == [t |-> "str", n |-> 0, s |-> s]
ListVal == [t |-> "list", n |-> 0, s |-> "[1]"]

\* Python truthiness
Truthy(v) ==
    CASE v.t = "none" -> FALSE
      [] v.t = "num"  -> v.n # 0
      [] v.t = "str"  -> v.s # ""
      [] v.t = "list" -> TRUE

\* a or b
Or(a, b) == IF Truthy(a) THEN a ELSE b

\* form_data.get(key) and form_data.get(key, default)
GetDefault(fd, key, default) == IF key \in DOMAIN fd THEN fd[key] ELSE default
Get(fd, key) == GetDefault(fd, key, None)

\* what an f-string shows of a value
Format(v) ==
    CASE v.t = "none" -> "None"
      [] v.t = "num"  -> IntToStr(v.n)
      [] v.t = "str"  -> v.s
      [] v.t = "list" -> v.s

\* float(text): an optional sign and decimal digits, blanks around them
\* allowed; anything else is a ValueError.  [ok, n]
IsDigit(c) == \E i \in 1..10 : Digits[i] = c
DigitVal(c) == (CHOOSE i \in 1..10 : Digits[i] = c) - 1

RECURSIVE DigitsVal(_, _)
DigitsVal(s, acc) ==
    IF s = "" THEN [ok |-> TRUE, n |-> acc]
    ELSE IF IsDigit(Char(s, 1))
         THEN DigitsVal(SubSeq(s, 2, Len(s)), 10 * acc + DigitVal(Char(s, 1)))
         ELSE [ok |-> FALSE, n |-> 0]

ParseFloat(text) ==
    LET t == strip(text)
        neg == t # "" /\ Char(t, 1) = "-"
        body == IF t # "" /\ Char(t, 1) \in {"-", "+"} THEN SubSeq(t, 2, Len(t)) ELSE t
        r == DigitsVal(body, 0)
    IN IF body = "" \/ ~r.ok THEN [ok |-> FALSE, n |-> 0]
       ELSE [ok |-> TRUE, n |-> IF neg THEN -r.n ELSE r.n]

\* float(v): TypeError for None and lists, ValueError for text that is no number
Float(v) ==
    CASE v.t = "num"  -> [ok |-> TRUE, n |-> v.n]
      [] v.t = "str"  -> ParseFloat(v.s)
      [] v.t = "none" -> [ok |-> FALSE, n |-> 0]
      [] v.t = "list" -> [ok |-> FALSE, n |-> 0]

\* round(q + r / b) for 0 <= r < b, halves to the even integer: Python's round()
RoundHalfEven(q, r, b) ==
    IF 2 * r < b THEN q
    ELSE IF 2 * r > b THEN q + 1
    ELSE IF q % 2 = 0 THEN q ELSE q + 1

\* round((q + r / b) * 100^h) by long division, two decimal places at a time
RECURSIVE RoundScaled(_, _, _, _)
RoundScaled(q, r, b, h) ==
    IF h = 0 THEN RoundHalfEven(q, r, b)
    ELSE RoundScaled(q * 100 + (r * 100) \div b, (r * 100) % b, b, h - 1)

\* a / b * 100^h, kept to a whole number; ZeroDivisionError when b is 0
Divide(a, b, h) ==
    IF b = 0 THEN [ok |-> FALSE, n |-> 0]
    ELSE [ok |-> TRUE, n |-> RoundScaled(a \div b, a % b, b, h)]

\* Form data: a function from the field names present to their values
EmptyForm == [k \in {} |-> None]
With(fd, key, v) == [k \in DOMAIN fd \cup {key} |-> IF k = key THEN v ELSE fd[k]]

FormTypes ==
    {"purchase_application", "refinance_application", "smsf_loan_purchase",
     "construction_loan", "cashout_refinance", "commercial_property_loan"}

PurchaseForm ==
    With(With(With(EmptyForm, "loan_amount", Num(550000)), "property_value", Num(750000)),
         "total_income_annual", Num(120000))

RefinanceForm ==
    With(With(With(With(With(EmptyForm, "current_loan_balance", Num(400000)),
                        "credit_card_limit_total", Num(15000)),
                   "personal_loans_balance", Num(8000)),
              "reason_for_refinance", Str("Debt Consolidation")),
         "estimated_property_value", Num(750000))

----------------------------------------------------------------------------
(* Document chunks as the retriever hands them over.  meta tells what      *)
(* doc.metadata holds: "text" (a str under "source"), "nosource" (no       *)
(* "source" key), "nometa" (metadata is None) or "badsource" (a value      *)
(* under "source" that is not a str).                                      *)

Doc(id, content, meta, source) ==
    [id |-> id, page_content |-> content, meta |-> meta, source |-> source]

PlainDoc(i) == Doc(i, Rep("p", i), "text", "policy.pdf")

LongText == Rep("a", 300)
LongA  == Doc(101, LongText \o "x", "text", "s1.pdf")
LongB  == Doc(102, LongText \o "y", "text", "s1.pdf")
LongC  == Doc(103, LongText \o "x", "text", "s2.pdf")
Short1 == Doc(104, "ab", "text", "c")
Short2 == Doc(105, "a", "text", "bc")
NoSrc  == Doc(106, "abc", "nosource", "")
NoMeta == Doc(107, "abc", "nometa", "")
BadSrc == Doc(108, "zz", "badsource", "")

\* The index's ranking: the plain chunks, then the special ones.
MasterList ==
    [i \in 1..NPlain |-> PlainDoc(i)] \o <<LongA, LongB, LongC, Short1, Short2, NoSrc>>

Window(start, len) ==
    IF start > Len(MasterList) THEN <<>>
    ELSE SubSeq(MasterList, start, Min(start + len - 1, Len(MasterList)))

Starts == {1, 19, NPlain + 1}

Outcome(kind, docs) == [kind |-> kind, docs |-> docs]

\* What retriever.invoke(query) can do when asked for k chunks: raise, return
\* None, return a list (shorter than, equal to or longer than k), or return a
\* single document that is not a list.
ContractOutcomes(k) ==
    {Outcome("throw", <<>>), Outcome("none", <<>>), Outcome("list", <<>>),
     Outcome("single", <<LongB>>), Outcome("single", <<NoMeta>>)}
    \cup {Outcome("list", Window(s, n)) : s \in Starts, n \in {k, OverReturn}}

AnyOutcomes(k) ==
    ContractOutcomes(k)
    \cup {Outcome("list", <<PlainDoc(1), BadSrc, PlainDoc(2)>>),
          Outcome("list", <<BadSrc, LongA>>)}

\* Within a request: a failure, and two lists that together hold more than
\* 30 different chunks
RequestOutcomes(k) ==
    {Outcome("throw", <<>>), Outcome("list", Window(1, OverReturn)),
     Outcome("list", Window(OverReturn + 1, OverReturn))}

\* Within a request that is followed to its response: a failure, nothing
\* found, and a list of k chunks
HandlerOutcomes(k) ==
    {Outcome("throw", <<>>), Outcome("list", <<>>), Outcome("list", Window(NPlain - 1, k))}

RetrieverOutcomes(r, k) ==
    IF r = "contract" THEN ContractOutcomes(k)
    ELSE IF r = "request" THEN RequestOutcomes(k)
    ELSE IF r = "handler" THEN HandlerOutcomes(k)
    ELSE AnyOutcomes(k)

----------------------------------------------------------------------------
(* enhanced_retrieve_docs *)

\* metadata.get("source", "") after `getattr(doc, "metadata", {}) or {}`
SourceOf(doc) == IF doc.meta = "text" THEN doc.source ELSE ""

\* page_content[:300] + source raises TypeError when source is not a str
KeyRaises(doc) == doc.meta = "badsource"

\* Python's hash of a str, taken as injective
Hash(s) == s

content_hash_no_source(doc) == Hash(Take(doc.page_content, PrefixLen))
content_hash(doc) == Hash(Take(doc.page_content, PrefixLen) \o SourceOf(doc))

RECURSIVE ProcessDocsSkipBad(_, _)
ProcessDocsSkipBad(st, docs) ==
    IF docs = <<>> THEN st
    ELSE LET doc == Head(docs) IN
         IF KeyRaises(doc) THEN ProcessDocsSkipBad(st, Tail(docs))
         ELSE IF content_hash(doc) \notin st.seen_hashes
         THEN ProcessDocsSkipBad([st EXCEPT !.seen_hashes = @ \cup {content_hash(doc)},
                                           !.all_docs = Append(@, doc)], Tail(docs))
         ELSE ProcessDocsSkipBad(st, Tail(docs))

\* One pass of `for doc in docs:` over the rest of the list; st is
\* [all_docs, seen_hashes, raised].  An exception leaves what was appended.
RECURSIVE ProcessDocs(_, _)
ProcessDocs(st, docs) ==
    IF docs = <<>> THEN st
    ELSE LET doc == Head(docs) IN
         IF KeyRaises(doc) THEN [st EXCEPT !.raised = TRUE]
         ELSE IF content_hash(doc) \notin st.seen_hashes
              THEN ProcessDocs([st EXCEPT !.seen_hashes = @ \cup {content_hash(doc)},
                                          !.all_docs = Append(@, doc)],
                               Tail(docs))
              ELSE ProcessDocs(st, Tail(docs))

\* The docs the inner loop walks: all that the retriever returned (a single
\* document wrapped in a list), whatever k was asked for.
DocsTruncatedToK(docs, k) == Take(docs, k)
DocsToProcess(docs, k) == docs

\* The body of the try block for one query, given what the retriever did.
TryBody(st, out, k) ==
    IF out.kind = "throw" THEN [st EXCEPT !.raised = TRUE]
    ELSE IF out.docs = <<>> THEN st             \* if not docs: continue
    ELSE ProcessDocs(st, DocsToProcess(out.docs, k))

\* `except Exception` catches whatever the try block raised
HandlerCatchesNothing(raised) == FALSE
HandlerCatches(raised) == TRUE

\* The handler ends with `continue`: the loop goes on with query i + 1 of n.
AfterExceptionBreak(i, n) == n
AfterExceptionRetry(i, n) == i
AfterException(i, n) == i + 1

\* The final slice all_docs[:30]
CapResultOff(docs) == docs
CapResult(docs) == Take(docs, MaxDocs)

CallRetrieve(r) ==
    /\ rpc = "idle"
    /\ \E n \in 0..MaxQueries, k \in {SmallK, DefaultK} :
         /\ queries' = [i \in 1..n |-> i]
         /\ k_per_query' = k
    /\ retriever' = r
    /\ all_docs' = <<>>
    /\ seen_hashes' = {}
    /\ idx' = 0
    /\ responses' = <<>>
    /\ rpc' = "loop"
    /\ UNCHANGED <<result, pvars, gvars, mvars, lvars, calls, batches, hvars>>

RetrieveQuery ==
    /\ rpc = "loop"
    /\ idx < Len(queries)
    /\ \E out \in RetrieverOutcomes(retriever, k_per_query) :
         LET st0 == [all_docs |-> all_docs, seen_hashes |-> seen_hashes, raised |-> FALSE]
             st1 == TryBody(st0, out, k_per_query)
         IN /\ responses' = Append(responses, out)
            /\ calls' = Append(calls, <<"retrieve", queries[idx + 1]>>)
            /\ all_docs' = st1.all_docs
            /\ seen_hashes' = st1.seen_hashes
            /\ IF st1.raised /\ ~HandlerCatches(st1.raised)
               THEN rpc' = "raised" /\ idx' = idx
               ELSE /\ rpc' = "loop"
                    /\ idx' = IF st1.raised THEN AfterException(idx, Len(queries))
                                            ELSE idx + 1
    /\ UNCHANGED <<retriever, queries, k_per_query, result, pvars, gvars, mvars, lvars, batches, hvars>>

ReturnDocs ==
    /\ rpc = "loop"
    /\ idx = Len(queries)
    /\ result' = CapResult(all_docs)
    /\ rpc' = "done"
    /\ UNCHANGED <<retriever, queries, k_per_query, idx, all_docs, seen_hashes, responses,
                   pvars, gvars, mvars, lvars, calls, batches, hvars>>

RInit ==
    /\ rpc = "idle"
    /\ retriever = "contract"
    /\ queries = <<>>
    /\ k_per_query = DefaultK
    /\ idx = 0
    /\ all_docs = <<>>
    /\ seen_hashes = {}
    /\ responses = <<>>
    /\ result = <<>>

----------------------------------------------------------------------------
(* retrieve_docs *)

LegacyQueries == {"", " ", "maximum LVR for investment loans", "self-employed income"}

\* What retriever.invoke(query) can do here: as above, and lists that hold a
\* chunk several times or more than 30 chunks.
LegacyOutcomes(k) ==
    AnyOutcomes(k)
    \cup {Outcome("list", <<LongA, PlainDoc(1), LongA, LongA>>),
          Outcome("list", MasterList)}

\* `if not query`
QueryIsEmpty(q) == q = ""

\* `except Exception` around as_retriever and invoke
LegacyHandlerCatchesNothing(out) == FALSE
LegacyHandlerCatches(out) == TRUE

\* The statements after the try: None gives [], a list is returned as it
\* is, anything else is wrapped in a list.
LegacyReturnCapped(out) == Take(out.docs, MaxDocs)
LegacyReturn(out) ==
    IF out.kind = "none" THEN <<>>
    ELSE IF out.kind = "list" THEN out.docs
    ELSE <<out.docs[1]>>

\* The call, up to the early return for an empty query
CallRetrieveDocs ==
    /\ lpc = "idle"
    /\ \E q \in LegacyQueries, k \in {SmallK, DefaultK, LegacyK} :
         /\ legacy_query' = q
         /\ legacy_k' = k
         /\ IF QueryIsEmpty(q)
            THEN lpc' = "done" /\ legacy_return' = <<>>
            ELSE lpc' = "invoking" /\ legacy_return' = legacy_return
    /\ UNCHANGED <<legacy_calls, legacy_results, rvars, pvars, gvars, mvars, calls, batches, hvars>>

\* The try block and what follows it, given what the retriever did
InvokeRetriever ==
    /\ lpc = "invoking"
    /\ \E out \in LegacyOutcomes(legacy_k) :
         /\ legacy_results' = out
         /\ legacy_calls' = legacy_calls + 1
         /\ IF out.kind = "throw"
            THEN IF LegacyHandlerCatches(out)
                 THEN lpc' = "done" /\ legacy_return' = <<>>
                 ELSE lpc' = "raised" /\ legacy_return' = legacy_return
            ELSE lpc' = "done" /\ legacy_return' = LegacyReturn(out)
    /\ UNCHANGED <<legacy_query, legacy_k, rvars, pvars, gvars, mvars, calls, batches, hvars>>

LInit ==
    /\ lpc = "idle"
    /\ legacy_query = ""
    /\ legacy_k = LegacyK
    /\ legacy_calls = 0
    /\ legacy_results = Outcome("none", <<>>)
    /\ legacy_return = <<>>

----------------------------------------------------------------------------
(* generate_targeted_queries *)

\* The form data the handler may be given: the specification's two scenarios
\* and a purchase form with one amount or value field set to any kind of value.
FieldValues ==
    {None, Num(0), Num(250000), Num(4000000), Num(6000000),
     Num(3000000), Num(5000000), Num(5000001),
     Str(""), Str("abc"), Str("4000000"), ListVal}

AmountFields ==
    {"loan_amount", "refinance_amount", "construction_loan_amount",
     "property_value", "purchase_price", "security_property_value"}

IncomeForm ==
    With(With(With(EmptyForm, "base_income_annual", Num(90000)),
              "rental_income_annual", Num(20000)),
         "repayment_type", Str("Interest Only (IO)"))

SynthForms ==
    {EmptyForm, PurchaseForm, RefinanceForm, IncomeForm}
    \cup {With(PurchaseForm, f, v) : f \in AmountFields, v \in FieldValues}
    \cup {With(EmptyForm, f, v) : f \in AmountFields, v \in {None, Str(""), Str("abc")}}

\* What query_gen_model.invoke(query_prompt) can do: raise, or answer with a
\* content that is text or is not (a list of content blocks).
GenOutcome(kind, content) == [kind |-> kind, content |-> content]

QueryLine(i) == "policy query " \o IntToStr(i)
QueryLines(n) == [i \in 1..n |-> QueryLine(i)]

\* Answers of n query lines: one per line; with blank lines between and a
\* trailing line break; indented and with carriage returns; after a heading,
\* a line of exactly ten characters and one of eleven.
GenOutcomes ==
    {GenOutcome("throw", ""), GenOutcome("nontext", "")}
    \cup {GenOutcome("text", join("\n", QueryLines(n))) : n \in 0..MaxGenerated}
    \cup {GenOutcome("text", join("\n\n", QueryLines(n)) \o "\n") : n \in {1, 6}}
    \cup {GenOutcome("text", join("\n", [i \in 1..n |-> "  " \o QueryLine(i) \o " \r"])) :
            n \in {2, 6}}
    \cup {GenOutcome("text", join("\n", <<"Queries:", "tencharsxx", "elevenchars">>
                                         \o QueryLines(n))) : n \in {0, 6, 7}}

\* lines 1755-1756: the first truthy candidate, else the last operand
SynthLoanAmount(fd) ==
    Or(Or(Get(fd, "loan_amount"), Get(fd, "refinance_amount")),
       GetDefault(fd, "construction_loan_amount", Num(0)))

SynthPropertyValue(fd) ==
    Or(Or(Get(fd, "property_value"), Get(fd, "purchase_price")),
       GetDefault(fd, "security_property_value", Num(0)))

\* lines 1772-1775: float(property_value) if property_value else 0, 0 on
\* ValueError or TypeError
prop_val(property_value) ==
    IF Truthy(property_value)
    THEN IF Float(property_value).ok THEN Float(property_value).n ELSE 0
    ELSE 0

property_tier_inclusive(pv) ==
    IF pv >= LuxuryThreshold THEN "luxury/high-value property over $5M"
    ELSE IF pv >= PremiumThreshold THEN "premium property over $3M"
    ELSE "standard residential property"

property_tier(pv) ==
    IF pv > LuxuryThreshold THEN "luxury/high-value property over $5M"
    ELSE IF pv > PremiumThreshold THEN "premium property over $3M"
    ELSE "standard residential property"

income_types(fd) ==
    (IF Truthy(Get(fd, "base_income_annual")) THEN <<"PAYG">> ELSE <<>>)
    \o (IF Truthy(Get(fd, "bonus_income_annual")) THEN <<"bonus/commission">> ELSE <<>>)
    \o (IF Truthy(Get(fd, "self_employment_income_annual")) THEN <<"self-employed">> ELSE <<>>)
    \o (IF Truthy(Get(fd, "rental_income_annual")) THEN <<"rental income">> ELSE <<>>)

income_desc(fd) ==
    IF income_types(fd) # <<>> THEN join(" + ", income_types(fd)) ELSE "standard income"

query_prompt(fd, ft) ==
    [loan_type |-> ft,
     loan_amount |-> Format(SynthLoanAmount(fd)),
     property_value |-> Format(SynthPropertyValue(fd)),
     property_tier |-> property_tier(prop_val(SynthPropertyValue(fd))),
     income_desc |-> income_desc(fd),
     repayment |-> Format(Or(Get(fd, "loan_repayment_type"),
                             GetDefault(fd, "repayment_type", Str("not specified"))))]

\* line 1806: the stripped lines that are not empty and longer than 10
KeepsLine(q) == strip(q) # "" /\ Len(strip(q)) > MinQueryLen

RECURSIVE ParseLines(_)
ParseLines(lines) ==
    IF lines = <<>> THEN <<>>
    ELSE (IF KeepsLine(Head(lines)) THEN <<strip(Head(lines))>> ELSE <<>>)
         \o ParseLines(Tail(lines))

\* response.content.split raises AttributeError when content is no str
GenerationRaises(out) == out.kind \in {"throw", "nontext"}

\* `except Exception` of the try block around the generation call
GenHandlerCatchesNothing(out) == FALSE
GenHandlerCatches(out) == TRUE

\* lines 1804-1810: queries after the try block
ParsedQueries(out) ==
    IF GenerationRaises(out) THEN <<>> ELSE ParseLines(split(out.content, "\n"))

base_queries(ft, la) ==
    <<"minimum loan amount requirements " \o ft,
      "lending criteria " \o Format(la) \o " loan",
      "lender comparison " \o ft>>

\* lines 1819-1822
CombineCappedFirst(qs, base) == Take(qs, MaxQueriesOut) \o base
CombineFallbackIfEmpty(qs, base) == Take(IF qs = <<>> THEN base ELSE qs, MaxQueriesOut)
CombineQueries(qs, base) == Take(qs \o base, MaxQueriesOut)

\* The call with its arguments, up to the prompt (lines 1749-1802)
CallGenerateWith(types, forms) ==
    /\ gpc = "idle"
    /\ \E ft \in types, fd \in forms :
         /\ form_type' = ft
         /\ form_data' = fd
         /\ loan_amount' = SynthLoanAmount(fd)
         /\ prompt' = query_prompt(fd, ft)
    /\ gpc' = "invoke"
    /\ UNCHANGED <<gen_response, gen_queries, all_queries, rvars, mvars, lvars, calls, batches, hvars>>

\* The model call and everything after it (lines 1804-1822), the model
\* answering with one of outs
InvokeModelWith(outs) ==
    /\ gpc = "invoke"
    /\ \E out \in outs :
         /\ gen_response' = out
         /\ IF GenerationRaises(out) /\ ~GenHandlerCatches(out)
            THEN /\ gpc' = "raised"
                 /\ UNCHANGED <<gen_queries, all_queries>>
            ELSE /\ gpc' = "done"
                 /\ gen_queries' = ParsedQueries(out)
                 /\ all_queries' = CombineQueries(ParsedQueries(out),
                                                  base_queries(form_type, loan_amount))
    /\ calls' = Append(calls, <<"generate", form_type>>)
    /\ UNCHANGED <<form_type, form_data, loan_amount, prompt, rvars, mvars, lvars, batches, hvars>>

CallGenerate == CallGenerateWith(FormTypes, SynthForms)

InvokeModel == InvokeModelWith(GenOutcomes)

GInit ==
    /\ gpc = "idle"
    /\ loan_amount = None
    /\ prompt = [loan_type |-> "", loan_amount |-> "", property_value |-> "",
                 property_tier |-> "", income_desc |-> "", repayment |-> ""]
    /\ gen_response = GenOutcome("none", "")
    /\ gen_queries = <<>>
    /\ all_queries = <<>>

PInit ==
    /\ form_type = "purchase_application"
    /\ form_data = EmptyForm

----------------------------------------------------------------------------
(* The metric computation of ask_structured (lines 1538-1631).  Amounts    *)
(* are whole dollars; lvr and dti are kept in hundredths (7333 is 73.33).  *)

\* a or b or ... or 0 over the fields named by keys
RECURSIVE OrChain(_, _)
OrChain(fd, keys) ==
    IF keys = <<>> THEN Num(0) ELSE Or(Get(fd, Head(keys)), OrChain(fd, Tail(keys)))

LoanCandidates ==
    <<"loan_amount", "current_loan_balance", "construction_loan_amount",
      "loan_amount_requested">>

ValueCandidates ==
    <<"property_value", "purchase_price", "estimated_property_value",
      "security_property_value", "estimated_completion_value">>

IncomeCandidates ==
    <<"total_income_annual", "total_income", "combined_income_annual",
      "annual_rental_income", "annual_business_revenue", "net_profit_before_tax">>

calculate_lvr_guard_misses_zero(loan, value) ==
    IF value < 0 THEN [ok |-> TRUE, n |-> 0] ELSE Divide(loan, value, 2)
calculate_lvr(loan, value) ==
    IF value <= 0 THEN [ok |-> TRUE, n |-> 0] ELSE Divide(loan, value, 2)

calculate_dti_guard_misses_zero(total_debt, annual_income) ==
    IF annual_income < 0 THEN [ok |-> TRUE, n |-> 0] ELSE Divide(total_debt, annual_income, 1)
calculate_dti(total_debt, annual_income) ==
    IF annual_income <= 0 THEN [ok |-> TRUE, n |-> 0] ELSE Divide(total_debt, annual_income, 1)

\* form_type_val in ["refinance", "cashout_refinance"]
IsRefinance(ft) == ft \in {"refinance", "cashout_refinance"}

\* "debt" in reason or "consolidat" in reason, reason being
\* str(form_data.get("reason_for_refinance", "")).lower()
IsConsolidating(fd) ==
    LET reason == lower(Format(GetDefault(fd, "reason_for_refinance", Str(""))))
    IN Contains(reason, "debt") \/ Contains(reason, "consolidat")

\* The locals before the first statement.  step counts the statements done:
\* 1 loan_amount, 2 property_value, 3 the consolidation block, 4 lvr,
\* 5 annual_income, 6 the liabilities, 7 total_debt, 8 dti.
MetricsStart ==
    [raised |-> FALSE, step |-> 0, loan_amount |-> 0, property_value |-> 0, lvr |-> 0,
     annual_income |-> 0, credit_card_debt |-> 0, personal_loan_debt |-> 0,
     car_loan_debt |-> 0, other_loan_debt |-> 0, help_debt |-> 0,
     total_debt |-> 0, dti |-> 0]

Raise(m) == [m EXCEPT !.raised = TRUE]

\* float(form_data.get(key) or 0)
FloatOrZero(fd, key) == Float(Or(Get(fd, key), Num(0)))

\* lines 1540-1546
ResolveLoanAmount(m, fd) ==
    LET r == Float(OrChain(fd, LoanCandidates))
    IN IF r.ok THEN [m EXCEPT !.loan_amount = r.n, !.step = 1] ELSE Raise(m)

\* lines 1548-1555
ResolvePropertyValue(m, fd) ==
    LET r == Float(OrChain(fd, ValueCandidates))
    IN IF r.ok THEN [m EXCEPT !.property_value = r.n, !.step = 2] ELSE Raise(m)

\* lines 1557-1573
Consolidate(m, fd, ft) ==
    IF IsRefinance(ft) /\ IsConsolidating(fd)
    THEN LET current_balance == FloatOrZero(fd, "current_loan_balance")
             cc_to_consolidate == FloatOrZero(fd, "credit_card_limit_total")
             pl_to_consolidate == FloatOrZero(fd, "personal_loans_balance")
             cash_out == 0
         IN IF current_balance.ok /\ cc_to_consolidate.ok /\ pl_to_consolidate.ok
            THEN [m EXCEPT !.loan_amount = current_balance.n + cc_to_consolidate.n
                                           + pl_to_consolidate.n + cash_out,
                           !.step = 3]
            ELSE Raise(m)
    ELSE [m EXCEPT !.step = 3]

\* line 1575
ComputeLvr(m) ==
    LET r == calculate_lvr(m.loan_amount, m.property_value)
    IN IF r.ok THEN [m EXCEPT !.lvr = r.n, !.step = 4] ELSE Raise(m)

ResolveIncomeSum(m, fd) ==
    LET total == FloatOrZero(fd, "total_income_annual").n + FloatOrZero(fd, "total_income").n
                 + FloatOrZero(fd, "combined_income_annual").n
                 + FloatOrZero(fd, "annual_rental_income").n
                 + FloatOrZero(fd, "annual_business_revenue").n
                 + FloatOrZero(fd, "net_profit_before_tax").n
    IN IF Float(OrChain(fd, IncomeCandidates)).ok
       THEN [m EXCEPT !.annual_income = total, !.step = 5] ELSE Raise(m)

\* lines 1579-1587
ResolveIncome(m, fd) ==
    LET r == Float(OrChain(fd, IncomeCandidates))
    IN IF r.ok THEN [m EXCEPT !.annual_income = r.n, !.step = 5] ELSE Raise(m)

\* lines 1595-1602
ResolveLiabilities(m, fd) ==
    LET cc == Float(Or(Get(fd, "credit_card_limit_total"),
                       Or(Get(fd, "credit_card_limit"), Num(0))))
        pl == FloatOrZero(fd, "personal_loans_balance")
        car == FloatOrZero(fd, "car_loan_balance")
        other == FloatOrZero(fd, "other_loan_balance")
        help == FloatOrZero(fd, "help_debt_balance")
    IN IF cc.ok /\ pl.ok /\ car.ok /\ other.ok /\ help.ok
       THEN [m EXCEPT !.credit_card_debt = cc.n, !.personal_loan_debt = pl.n,
                      !.car_loan_debt = car.n, !.other_loan_debt = other.n,
                      !.help_debt = help.n, !.step = 6]
       ELSE Raise(m)

TotalDebtWithoutCarLoan(m, fd, ft) ==
    IF IsRefinance(ft) /\ IsConsolidating(fd)
    THEN [m EXCEPT !.total_debt = m.loan_amount + m.help_debt, !.step = 7]
    ELSE [m EXCEPT !.total_debt = m.loan_amount + m.credit_card_debt + m.personal_loan_debt
                                  + m.other_loan_debt + m.help_debt,
                   !.step = 7]

\* lines 1605-1626
TotalDebt(m, fd, ft) ==
    IF IsRefinance(ft) /\ IsConsolidating(fd)
    THEN [m EXCEPT !.total_debt = m.loan_amount + m.help_debt, !.step = 7]
    ELSE [m EXCEPT !.total_debt = m.loan_amount + m.credit_card_debt + m.personal_loan_debt
                                  + m.car_loan_debt + m.other_loan_debt + m.help_debt,
                   !.step = 7]

\* line 1628
ComputeDti(m) ==
    LET r == IF m.annual_income > 0 THEN calculate_dti(m.total_debt, m.annual_income)
             ELSE [ok |-> TRUE, n |-> 0]
    IN IF r.ok THEN [m EXCEPT !.dti = r.n, !.step = 8] ELSE Raise(m)

\* The statements in order
Statement(i, m, fd, ft) ==
    CASE i = 1 -> ResolveLoanAmount(m, fd)
      [] i = 2 -> ResolvePropertyValue(m, fd)
      [] i = 3 -> Consolidate(m, fd, ft)
      [] i = 4 -> ComputeLvr(m)
      [] i = 5 -> ResolveIncome(m, fd)
      [] i = 6 -> ResolveLiabilities(m, fd)
      [] i = 7 -> TotalDebt(m, fd, ft)
      [] i = 8 -> ComputeDti(m)

\* A statement is reached only when none before it raised
RECURSIVE RunFrom(_, _, _, _)
RunFrom(i, m, fd, ft) ==
    IF m.raised \/ i > 8 THEN m ELSE RunFrom(i + 1, Statement(i, m, fd, ft), fd, ft)

compute_metrics(fd, ft) == RunFrom(1, MetricsStart, fd, ft)

\* The requests: the specification's scenarios and forms of the other types,
\* each with one field set to any kind of value, and the refinance and
\* purchase forms with a value or income field zeroed and a second field set.
ConstructionForm ==
    With(With(With(With(EmptyForm, "construction_loan_amount", Num(600000)),
                   "estimated_completion_value", Num(900000)),
              "total_income", Num(150000)),
         "car_loan_balance", Num(20000))

CommercialForm ==
    With(With(With(With(EmptyForm, "loan_amount_requested", Num(1000000)),
                   "security_property_value", Num(2000000)),
              "annual_rental_income", Num(100000)),
         "help_debt_balance", Num(30000))

MetricForms == {EmptyForm, PurchaseForm, RefinanceForm, ConstructionForm, CommercialForm}

ValueAndIncomeFields ==
    {ValueCandidates[i] : i \in 1..Len(ValueCandidates)}
    \cup {IncomeCandidates[i] : i \in 1..Len(IncomeCandidates)}

MetricFields ==
    {LoanCandidates[i] : i \in 1..Len(LoanCandidates)}
    \cup ValueAndIncomeFields
    \cup {"credit_card_limit_total", "credit_card_limit", "personal_loans_balance",
          "car_loan_balance", "other_loan_balance", "help_debt_balance", "cash_out_amount",
          "cash_out_amount_requested"}

MetricValues ==
    {None, Num(0), Num(-1000), Num(50000), Str(""), Str("0"), Str("abc"), Str(" 80000 ")}

ReasonValues ==
    {None, Num(0), Str(""), Str("Better rate"), Str("CONSOLIDATE loans"), Str("Pay off Debt")}

SingleForms ==
    MetricForms
    \cup {With(T, f, v) : T \in MetricForms, f \in MetricFields, v \in MetricValues}
    \cup {With(T, "reason_for_refinance", v) : T \in MetricForms, v \in ReasonValues}

DoubleForms ==
    {With(With(T, f, v), g, w) :
        T \in {RefinanceForm, PurchaseForm},
        f \in ValueAndIncomeFields, v \in {Num(0), Num(-1000), Str("0")},
        g \in MetricFields, w \in {None, Str("abc"), Num(5000)}}

MetricRequests ==
    (FormTypes \X SingleForms)
    \cup ({"refinance_application", "cashout_refinance", "purchase_application"} \X DoubleForms)

\* Digits in groups of three: the "," of a format spec
RECURSIVE Grouped(_)
Grouped(n) ==
    IF n < 1000 THEN NatToStr(n)
    ELSE Grouped(n \div 1000) \o ","
         \o (IF n % 1000 < 10 THEN "00" ELSE IF n % 1000 < 100 THEN "0" ELSE "")
         \o NatToStr(n % 1000)

Sign(n) == IF n < 0 THEN "-" ELSE ""
Abs(n) == IF n < 0 THEN -n ELSE n

\* f"${x:,.2f}" of a whole amount
FormatMoney(n) == "$" \o Sign(n) \o Grouped(Abs(n)) \o ".00"

\* f"{x:.2f}" of a figure kept in hundredths
FormatHundredths(h) ==
    Sign(h) \o NatToStr(Abs(h) \div 100) \o "."
        \o (IF Abs(h) % 100 < 10 THEN "0" ELSE "") \o NatToStr(Abs(h) % 100)

\* lines 1633-1644, the four computed entries
ChainInput(m) ==
    [lvr |-> FormatHundredths(m.lvr) \o "%",
     dti |-> FormatHundredths(m.dti) \o "x",
     loan_amount |-> FormatMoney(m.loan_amount),
     property_value |-> FormatMoney(m.property_value)]

NoChainInput == [lvr |-> "", dti |-> "", loan_amount |-> "", property_value |-> ""]

\* The computation only reads payload.form_data: the record is the same after it
RecordAfterWriteBack(fd, m) ==
    IF "current_loan_balance" \in DOMAIN fd
    THEN With(fd, "current_loan_balance", Num(m.loan_amount)) ELSE fd
RecordAfterDefaultsFilled(fd, m) == With(fd, "loan_amount", Num(m.loan_amount))
RecordAfter(fd, m) == fd

\* One run of lines 1538-1644 on the record fd of a request of type ft
RunMetrics(fd, ft) ==
    /\ metrics' = compute_metrics(fd, ft)
    /\ metrics_log' = Append(metrics_log, metrics')
    /\ mpc' = IF metrics'.raised THEN "raised" ELSE "done"
    /\ chain_input' = IF metrics'.raised THEN NoChainInput ELSE ChainInput(metrics')
    /\ form_data' = RecordAfter(fd, metrics')
    /\ form_type' = ft

ComputeMetrics ==
    /\ mpc = "idle"
    /\ \E req \in MetricRequests : RunMetrics(req[2], req[1])
    /\ UNCHANGED <<rvars, gvars, lvars, calls, batches, hvars>>

\* A further request with the same record and type
ComputeAgain ==
    /\ mpc \in {"done", "raised"}
    /\ Len(metrics_log) < MaxCalls
    /\ RunMetrics(form_data, form_type)
    /\ UNCHANGED <<rvars, gvars, lvars, calls, batches, hvars>>

MInit ==
    /\ mpc = "idle"
    /\ metrics = MetricsStart
    /\ metrics_log = <<>>
    /\ chain_input = NoChainInput

----------------------------------------------------------------------------
(* One request of ask_structured, lines 1524-1535: the queries are          *)
(* generated, then handed to enhanced_retrieve_docs with k_per_query = 4.   *)

RequestTypes == {"purchase_application", "cashout_refinance"}
RequestForms == {PurchaseForm, RefinanceForm}

RequestGenOutcomes ==
    {GenOutcome("throw", "")}
    \cup {GenOutcome("text", join("\n", QueryLines(n))) : n \in 0..MaxRequestGenerated}

\* line 1526, the call
ReceiveRequest == CallGenerateWith(RequestTypes, RequestForms)

\* line 1526, the model call inside generate_targeted_queries and its return
GenerateForRequest == InvokeModelWith(RequestGenOutcomes)

\* line 1533: enhanced_retrieve_docs(queries, k_per_query=4), up to the loop
StartRetrievalWith(r) ==
    /\ gpc = "done"
    /\ rpc = "idle"
    /\ queries' = all_queries
    /\ k_per_query' = DefaultK
    /\ retriever' = r
    /\ all_docs' = <<>>
    /\ seen_hashes' = {}
    /\ idx' = 0
    /\ responses' = <<>>
    /\ rpc' = "loop"
    /\ UNCHANGED <<result, pvars, gvars, mvars, lvars, calls, batches, hvars>>

StartRetrieval == StartRetrievalWith("request")
StartHandlerRetrieval == StartRetrievalWith("handler")

CInit == calls = <<>>

----------------------------------------------------------------------------
(* The prompt router of run_credit_chain *)

\* main.py 56-63
FORM_TYPE_LABELS ==
    [ft \in FormTypes |->
        CASE ft = "purchase_application" -> "Purchase Application"
          [] ft = "refinance_application" -> "Refinance Application"
          [] ft = "smsf_loan_purchase" -> "SMSF Loan - Purchase"
          [] ft = "construction_loan" -> "Construction Loan"
          [] ft = "cashout_refinance" -> "Cash-Out Refinance"
          [] ft = "commercial_property_loan" -> "Commercial Property Loan"]

\* ai_pipeline.py 1710-1717; a template is named by its variable
RouterKeys ==
    {"purchase application", "refinance application", "smsf loan purchase",
     "construction loan", "cashout refinance", "commercial property loan"}

PROMPT_ROUTER ==
    [key \in RouterKeys |->
        CASE key = "purchase application" -> "PURCHASE_PROMPT"
          [] key = "refinance application" -> "REFINANCE_PROMPT"
          [] key = "smsf loan purchase" -> "SMSF_PURCHASE_PROMPT"
          [] key = "construction loan" -> "CONSTRUCTION_PROMPT"
          [] key = "cashout refinance" -> "CASHOUT_PROMPT"
          [] key = "commercial property loan" -> "COMMERCIAL_PROMPT"]

DEFAULT_PROMPT == "DEFAULT_PROMPT"

\* str.replace(old, new) for a one-character old
RECURSIVE replace(_, _, _)
replace(s, old, new) ==
    IF s = "" THEN ""
    ELSE (IF Char(s, 1) = old THEN new ELSE Char(s, 1))
         \o replace(SubSeq(s, 2, Len(s)), old, new)

\* lines 1731-1735
normalized_label(label) == replace(replace(lower(strip(label)), "-", ""), "_", " ")

\* lines 1722-1744
get_prompt_for_form(label) ==
    IF label = "" THEN DEFAULT_PROMPT
    ELSE IF normalized_label(label) \in DOMAIN PROMPT_ROUTER
         THEN PROMPT_ROUTER[normalized_label(label)]
         ELSE DEFAULT_PROMPT

\* Labels given to the router: the labels of the request handler, the
\* values of the form types, the router's keys, and other text
PromptLabels ==
    {FORM_TYPE_LABELS[ft] : ft \in FormTypes}
    \cup FormTypes
    \cup RouterKeys
    \cup {"", "  ", " Purchase Application ", "REFINANCE APPLICATION", "SMSF Loan Purchase",
          "smsf-loan-purchase", "Cash Out Refinance", "Cash-Out_Refinance",
          "Construction", "Personal Loan", "construction  loan"}

\* ai_pipeline.py 1939-1940: form_label = inputs.get("form_label", ""),
\* prompt = get_prompt_for_form(form_label)
SelectPrompt(label) ==
    /\ form_label' = label
    /\ chain_prompt' = get_prompt_for_form(label)
    /\ prompt_log' = Append(prompt_log, [form_label |-> label, prompt |-> chain_prompt',
                                         form_type |-> ""])

\* get_prompt_for_form called with some label
GetPrompt ==
    /\ Len(prompt_log) < MaxPromptCalls
    /\ \E label \in PromptLabels : SelectPrompt(label)
    /\ UNCHANGED <<rvars, pvars, gvars, mvars, lvars, calls, batches,
                   apc, policy_context, documents_used>>

\* run_credit_chain called with the chain_input of a request of type ft:
\* main.py 1634 and 1648
SelectPromptForType ==
    /\ Len(prompt_log) < MaxPromptCalls
    /\ \E ft \in FormTypes :
          /\ form_label' = FORM_TYPE_LABELS[ft]
          /\ chain_prompt' = get_prompt_for_form(form_label')
          /\ prompt_log' = Append(prompt_log, [form_label |-> form_label',
                                               prompt |-> chain_prompt', form_type |-> ft])
    /\ UNCHANGED <<rvars, pvars, gvars, mvars, lvars, calls, batches,
                   apc, policy_context, documents_used>>

----------------------------------------------------------------------------
(* ask_structured after the retrieval, lines 1534-1674 *)

NoPolicyPlaceholder == "No relevant documents retrieved."

\* main.py 1413-1424
RECURSIVE FormatFrom(_, _)
FormatFrom(docs, n) ==
    IF docs = <<>> THEN <<>>
    ELSE LET doc == Head(docs)
             header == "[Document " \o NatToStr(n) \o "]"
                       \o (IF SourceOf(doc) # "" THEN " (Source: " \o SourceOf(doc) \o ")" ELSE "")
         IN <<header \o "\n" \o strip(doc.page_content)>> \o FormatFrom(Tail(docs), n + 1)

format_docs(docs) == IF docs = <<>> THEN "" ELSE join("\n\n", FormatFrom(docs, 1))

\* line 1639: docs_text or "No relevant documents retrieved."
PolicyContextRaw(docs_text) == docs_text
PolicyContext(docs_text) == IF docs_text # "" THEN docs_text ELSE NoPolicyPlaceholder

\* lines 1534-1644: the documents are formatted, the metrics computed and
\* chain_input built; an exception of the computation ends the request
BuildChainInput ==
    /\ retriever = "handler"
    /\ rpc = "done"
    /\ apc = "idle"
    /\ RunMetrics(form_data, form_type)
    /\ policy_context' = IF metrics'.raised THEN policy_context
                         ELSE PolicyContext(format_docs(result))
    /\ form_label' = IF metrics'.raised THEN form_label ELSE FORM_TYPE_LABELS[form_type]
    /\ apc' = IF metrics'.raised THEN "metrics_raised" ELSE "chain"
    /\ UNCHANGED <<rvars, gvars, lvars, calls, batches, chain_prompt, documents_used,
                   prompt_log>>

\* lines 1648-1674: run_credit_chain selects the template and invokes the
\* chain, which returns text or raises; the response reports len(docs)
ChainOutcomes == {"text", "throw"}

RunCreditChain ==
    /\ apc = "chain"
    /\ chain_prompt' = get_prompt_for_form(form_label)
    /\ \E out \in ChainOutcomes :
          IF out = "text"
          THEN apc' = "replied" /\ documents_used' = Len(result)
          ELSE apc' = "chain_raised" /\ UNCHANGED documents_used
    /\ UNCHANGED <<rvars, pvars, gvars, mvars, lvars, calls, batches, form_label,
                   policy_context, prompt_log>>

HInit ==
    /\ apc = "idle"
    /\ form_label = ""
    /\ policy_context = ""
    /\ chain_prompt = ""
    /\ documents_used = 0
    /\ prompt_log = <<>>

----------------------------------------------------------------------------
(* enhanced_retrieve_docs called by two requests at a time, as the worker   *)
(* threads of the server do.  all_docs and seen_hashes are local variables  *)
(* of the function: every invocation has its own.                           *)

Invocations == {"a", "b"}

\* What the retriever can do for a query of either invocation: overlapping
\* lists, a list with chunks that differ in source only, a failure
ConcurrentOutcomes ==
    {Outcome("throw", <<>>), Outcome("list", Window(1, SmallK)),
     Outcome("list", Window(SmallK, SmallK)), Outcome("list", <<LongA, LongC, LongA>>)}

\* seen_hashes as invocation b reads it
SeenSharedAcrossInvocations(b, bs) == UNION {bs[x].seen_hashes : x \in DOMAIN bs}
SeenBy(b, bs) == bs[b].seen_hashes

\* The keys other invocations hold in their seen_hashes right now
SeenByOthers(b, bs) == UNION {bs[x].seen_hashes : x \in DOMAIN bs \ {b}}

IdleBatch ==
    [pc |-> "idle", queries |-> <<>>, idx |-> 0, all_docs |-> <<>>, seen_hashes |-> {},
     responses |-> <<>>, foreign |-> {}, result |-> <<>>]

\* lines 1825-1840; also the next call made by a worker that has returned
BatchCall(b) ==
    /\ batches[b].pc \in {"idle", "done"}
    /\ \E n \in 0..MaxBatchQueries :
         batches' = [batches EXCEPT ![b] = [IdleBatch EXCEPT !.pc = "loop",
                                                              !.queries = [i \in 1..n |-> i]]]
    /\ UNCHANGED <<rvars, pvars, gvars, mvars, lvars, calls, hvars>>

\* lines 1842-1870 for one query.  foreign collects the keys that were in
\* another invocation's seen_hashes while this one processed a query.
BatchRetrieveQuery(b) ==
    /\ batches[b].pc = "loop"
    /\ batches[b].idx < Len(batches[b].queries)
    /\ \E out \in ConcurrentOutcomes :
         LET st0 == [all_docs |-> batches[b].all_docs, seen_hashes |-> SeenBy(b, batches),
                     raised |-> FALSE]
             st1 == TryBody(st0, out, DefaultK)
         IN batches' = [batches EXCEPT ![b].responses = Append(@, out),
                                       ![b].all_docs = st1.all_docs,
                                       ![b].seen_hashes = st1.seen_hashes,
                                       ![b].foreign = @ \cup SeenByOthers(b, batches),
                                       ![b].idx = @ + 1]
    /\ UNCHANGED <<rvars, pvars, gvars, mvars, lvars, calls, hvars>>

\* lines 1872-1875
BatchReturn(b) ==
    /\ batches[b].pc = "loop"
    /\ batches[b].idx = Len(batches[b].queries)
    /\ batches' = [batches EXCEPT ![b].result = CapResult(batches[b].all_docs),
                                  ![b].pc = "done"]
    /\ UNCHANGED <<rvars, pvars, gvars, mvars, lvars, calls, hvars>>

BInit == batches = [b \in Invocations |-> IdleBatch]

----------------------------------------------------------------------------
(* Specifications: one per operation of the core *)

Init == RInit /\ PInit /\ GInit /\ MInit /\ LInit /\ CInit /\ BInit /\ HInit

NextRetrieve == CallRetrieve("contract") \/ RetrieveQuery \/ ReturnDocs
NextRetrieveAny == CallRetrieve("any") \/ RetrieveQuery \/ ReturnDocs
NextGenerate == CallGenerate \/ InvokeModel
NextMetrics == ComputeMetrics \/ ComputeAgain
NextRetrieveDocs == CallRetrieveDocs \/ InvokeRetriever
NextRequest ==
    ReceiveRequest \/ GenerateForRequest \/ StartRetrieval \/ RetrieveQuery \/ ReturnDocs
NextHandler ==
    \/ ReceiveRequest \/ GenerateForRequest \/ StartHandlerRetrieval \/ RetrieveQuery
    \/ ReturnDocs \/ BuildChainInput \/ RunCreditChain
NextPrompt == GetPrompt \/ SelectPromptForType

SpecRetrieve == Init /\ [][NextRetrieve]_vars
SpecRetrieveAny == Init /\ [][NextRetrieveAny]_vars
SpecGenerate == Init /\ [][NextGenerate]_vars
SpecMetrics == Init /\ [][NextMetrics]_vars
NextConcurrent ==
    \E b \in Invocations : BatchCall(b) \/ BatchRetrieveQuery(b) \/ BatchReturn(b)

SpecRetrieveDocs == Init /\ [][NextRetrieveDocs]_vars
SpecRequest == Init /\ [][NextRequest]_vars
SpecConcurrent == Init /\ [][NextConcurrent]_vars
SpecPrompt == Init /\ [][NextPrompt]_vars
SpecHandler == Init /\ [][NextHandler]_vars

\* The synchronous loop runs on: each retriever call returns or raises.
FairSpecRetrieveAny == SpecRetrieveAny /\ WF_vars(NextRetrieveAny)

----------------------------------------------------------------------------
(* Properties of enhanced_retrieve_docs *)

\* The deduplication key as the specification words it: the first 300
\* characters of the content plus the source identifier (none: empty).
DedupKey(d) ==
    SubSeq(d.page_content, 1, Min(300, Len(d.page_content)))
        \o (IF d.meta = "text" THEN d.source ELSE "")

\* Every chunk the retriever returned, in query order and in-query rank.
RECURSIVE ReturnedChunks(_)
ReturnedChunks(resps) ==
    IF resps = <<>> THEN <<>>
    ELSE Head(resps).docs \o ReturnedChunks(Tail(resps))

\* seq without the chunks whose key occurred earlier (keys: those seen)
RECURSIVE FirstSeen(_, _)
FirstSeen(seq, keys) ==
    IF seq = <<>> THEN <<>>
    ELSE IF DedupKey(Head(seq)) \in keys THEN FirstSeen(Tail(seq), keys)
         ELSE <<Head(seq)>> \o FirstSeen(Tail(seq), keys \cup {DedupKey(Head(seq))})

\* The keys of a sequence of chunks, position by position
KeysOf(seq) == [i \in 1..Len(seq) |-> DedupKey(seq[i])]

\* Position j of the key sequence ks is the first encounter of its key
IsFirstEncounter(ks, j) == \A i \in 1..(j - 1) : ks[i] # ks[j]

\* The number of distinct keys met up to and including position j
FirstSeenIndex(ks, j) == Cardinality({ks[i] : i \in 1..j})

KeyRepeats(ks, j) == \E i \in 1..Len(ks) : i # j /\ ks[i] = ks[j]

PositionsOfKey(ks, key) == {p \in 1..Len(ks) : ks[p] = key}

Failed(out) == out.kind = "throw"

\* C1: the list returned by enhanced_retrieve_docs has at most 30 entries,
\* whatever the queries, k_per_query and the retriever's behaviour (any number
\* of chunks per query, failures on any subset of the queries).
C1_CapInvariant == rpc = "done" => Len(result) <= 30

C1_Witness ==
    /\ rpc = "done"
    /\ Len(all_docs) > 30
    /\ Len(result) = 30
    /\ \E i \in 1..Len(responses) : Failed(responses[i])
    /\ \E i \in 1..Len(responses) : Len(responses[i].docs) > k_per_query

\* C2 as stated: no two returned chunks share a deduplication key, and every
\* key the retriever returned more than once appears exactly once in the
\* result, as its first encountered instance, at its first-seen index.
C2_ExactlyOnceAsStated ==
    rpc = "done" =>
        LET R == ReturnedChunks(responses)
            ks == KeysOf(R)
            rk == KeysOf(result)
        IN
        /\ \A a, b \in 1..Len(result) : a # b => rk[a] # rk[b]
        /\ \A j \in 1..Len(R) :
             (IsFirstEncounter(ks, j) /\ KeyRepeats(ks, j)) =>
                 /\ Cardinality(PositionsOfKey(rk, ks[j])) = 1
                 /\ FirstSeenIndex(ks, j) <= Len(result)
                 /\ result[FirstSeenIndex(ks, j)] = R[j]

\* C2 amended: no two returned chunks share a deduplication key; a key whose
\* first encounter is among the first 30 distinct keys of the batch appears
\* exactly once, as its first encountered instance, at its first-seen index;
\* a key first met after 30 distinct keys does not appear at all.
C2_FirstSeenWithinCap ==
    rpc = "done" =>
        LET R == ReturnedChunks(responses)
            ks == KeysOf(R)
            rk == KeysOf(result)
        IN
        /\ \A a, b \in 1..Len(result) : a # b => rk[a] # rk[b]
        /\ \A j \in 1..Len(R) :
             IsFirstEncounter(ks, j) =>
                 LET n == FirstSeenIndex(ks, j) IN
                 IF n <= 30
                 THEN PositionsOfKey(rk, ks[j]) = {n} /\ result[n] = R[j]
                 ELSE PositionsOfKey(rk, ks[j]) = {}

\* A batch where one key came back from two queries and twice within one
\* query, the later-ranked instance being the one met first, and where the
\* cap cut the list.
C2_Witness ==
    /\ rpc = "done"
    /\ Len(responses) = 3
    /\ responses[1].docs = <<LongB>>
    /\ LongA \in {responses[2].docs[i] : i \in 1..Len(responses[2].docs)}
    /\ LongB \in {responses[2].docs[i] : i \in 1..Len(responses[2].docs)}
    /\ result[1] = LongB
    /\ Len(all_docs) > 30

\* C3: when the retriever throws for some of the queries, every later query
\* is still executed, and the returned list is the one the batch without the
\* failing queries returns.
RECURSIVE RunBatch(_, _, _)
RunBatch(st, resps, k) ==
    IF resps = <<>> THEN st
    ELSE RunBatch([TryBody(st, Head(resps), k) EXCEPT !.raised = FALSE], Tail(resps), k)

BatchResult(resps, k) ==
    CapResult(RunBatch([all_docs |-> <<>>, seen_hashes |-> {}, raised |-> FALSE],
                       resps, k).all_docs)

C3_FailureIsolation ==
    /\ rpc # "raised"
    /\ rpc = "done" =>
         /\ Len(responses) = Len(queries)
         /\ result = BatchResult(SelectSeq(responses, LAMBDA o : ~Failed(o)), k_per_query)
         /\ \A i \in 1..Len(result) :
              \E q \in 1..Len(responses) :
                 /\ ~Failed(responses[q])
                 /\ \E r \in 1..Len(responses[q].docs) : responses[q].docs[r] = result[i]

\* The first query contributes, the second fails, the third contributes.
C3_Witness ==
    /\ rpc = "done"
    /\ Len(responses) = 3
    /\ Failed(responses[2])
    /\ ~Failed(responses[1]) /\ ~Failed(responses[3])
    /\ \E i, j \in 1..Len(result) :
         /\ i < j
         /\ result[i] \in {responses[1].docs[r] : r \in 1..Len(responses[1].docs)}
         /\ result[j] \notin {responses[1].docs[r] : r \in 1..Len(responses[1].docs)}

\* C4: enhanced_retrieve_docs never lets an error out and always comes to
\* return a list; with no query, or when every query fails or returns
\* nothing, that list is empty.
NothingRetrieved == \A i \in 1..Len(responses) : responses[i].docs = <<>>

C4_AlwaysReturns ==
    /\ [](rpc # "raised")
    /\ (rpc = "loop") ~> (rpc = "done")
    /\ []((rpc = "done" /\ NothingRetrieved) => result = <<>>)

C4_Witness ==
    /\ rpc = "done"
    /\ Len(queries) = 3
    /\ Failed(responses[1])
    /\ responses[2].kind = "none"
    /\ responses[3] = Outcome("list", <<>>)
    /\ result = <<>>

\* C5: the returned list is the first 30 entries of the reference sequence:
\* all returned chunks in query order and in-query rank, each chunk whose key
\* occurred earlier removed; nothing is cut to k_per_query before that.
C5_ReferenceSequence ==
    rpc = "done" => result = Take(FirstSeen(ReturnedChunks(responses), {}), 30)

C5_Witness ==
    /\ rpc = "done"
    /\ Len(FirstSeen(ReturnedChunks(responses), {})) > 30
    /\ Len(ReturnedChunks(responses)) > Len(FirstSeen(ReturnedChunks(responses), {}))
    /\ \E i \in 1..Len(responses) : Len(responses[i].docs) > k_per_query
    /\ Len(result) = 30

\* The chunks of one query's list that come before the first chunk whose key
\* cannot be computed
RECURSIVE BeforeFailure(_)
BeforeFailure(docs) ==
    IF docs = <<>> \/ Head(docs).meta = "badsource" THEN <<>>
    ELSE <<Head(docs)>> \o BeforeFailure(Tail(docs))

RECURSIVE ProcessedChunks(_)
ProcessedChunks(resps) ==
    IF resps = <<>> THEN <<>>
    ELSE BeforeFailure(Head(resps).docs) \o ProcessedChunks(Tail(resps))

FailsAt(docs, j) ==
    /\ j \in 1..Len(docs)
    /\ docs[j].meta = "badsource"
    /\ \A i \in 1..(j - 1) : docs[i].meta # "badsource"

\* C28: when processing fails on chunk j of a query's list, the chunks 1..j-1
\* of that list count as processed, chunk j and the later chunks of that list
\* are dropped without a key being recorded for them, and the next query is
\* processed: the returned list is the first 30 first-seen chunks of the
\* lists so shortened.
C28_KeepsChunksBeforeFailure ==
    rpc = "done" =>
        /\ Len(responses) = Len(queries)
        /\ result = Take(FirstSeen(ProcessedChunks(responses), {}), 30)

\* Chunk 2 of the first list fails: its chunk 1 is returned, and its chunk 3,
\* returned again by a later query, is kept from there.
C28_Witness ==
    /\ rpc = "done"
    /\ Len(responses) >= 2
    /\ FailsAt(responses[1].docs, 2)
    /\ Len(responses[1].docs) = 3
    /\ \E r \in 1..Len(responses[2].docs) : responses[2].docs[r] = responses[1].docs[3]
    /\ result = FirstSeen(<<responses[1].docs[1]>> \o responses[2].docs, {})
    /\ \E i \in 2..Len(result) : result[i] = responses[1].docs[3]

\* The deduplication key as a pair: the first 300 characters of the content
\* and the source identifier (none: empty)
PairKey(d) == <<Take(d.page_content, 300), IF d.meta = "text" THEN d.source ELSE "">>

RECURSIVE FirstSeenByPair(_, _)
FirstSeenByPair(seq, keys) ==
    IF seq = <<>> THEN <<>>
    ELSE IF PairKey(Head(seq)) \in keys THEN FirstSeenByPair(Tail(seq), keys)
         ELSE <<Head(seq)>> \o FirstSeenByPair(Tail(seq), keys \cup {PairKey(Head(seq))})

\* C29: a chunk is left out as a duplicate only if an earlier chunk of the
\* batch has the same 300-character prefix and the same source identifier:
\* the returned list is the first 30 chunks that are first with their pair.
\* Refuted: line 1860 hashes the concatenation of prefix and source.
C29_DuplicateOnlyIfBothEqual ==
    rpc = "done" => result = Take(FirstSeenByPair(ReturnedChunks(responses), {}), 30)

----------------------------------------------------------------------------
(* Properties of generate_targeted_queries *)

\* The three deterministic fallback queries of the request at hand
Fallbacks ==
    <<"minimum loan amount requirements " \o form_type,
      "lending criteria " \o Format(loan_amount) \o " loan",
      "lender comparison " \o form_type>>

Elements(seq) == {seq[i] : i \in 1..Len(seq)}

\* C6: when the generation call throws, generate_targeted_queries does not
\* raise, takes the parsed list as empty and returns the three fallback
\* queries: at least three strings, none empty.
C6_FallbackOnFailure ==
    /\ gpc # "raised"
    /\ (gpc = "done" /\ gen_response.kind = "throw") =>
         /\ gen_queries = <<>>
         /\ Len(all_queries) >= 3
         /\ \A i \in 1..Len(all_queries) : all_queries[i] # ""
         /\ all_queries = Fallbacks

C6_Witness ==
    /\ gpc = "done"
    /\ gen_response.kind = "throw"
    /\ form_type = "refinance_application"
    /\ all_queries[2] = "lending criteria 550000 loan"

\* C7: the returned list is the first 10 entries of the parsed queries
\* followed by the three fallback queries; its length is min(10, n + 3) for
\* n parsed queries.
C7_GeneratedThenFallbacksCapped ==
    gpc = "done" =>
        /\ all_queries = SubSeq(gen_queries \o Fallbacks, 1, Min(10, Len(gen_queries) + 3))
        /\ Len(all_queries) = Min(10, Len(gen_queries) + 3)
        /\ Len(all_queries) <= 10

C7_Witness ==
    /\ gpc = "done"
    /\ Len(gen_queries) = 8
    /\ gen_queries[1] = "policy query 1" /\ gen_queries[8] = "policy query 8"
    /\ Len(all_queries) = 10
    /\ all_queries[9] = Fallbacks[1] /\ all_queries[10] = Fallbacks[2]

\* C8 as stated: every returned Query Set contains all three fallback queries.
C8_AllFallbacksAsStated ==
    gpc = "done" => \A i \in 1..3 : Fallbacks[i] \in Elements(all_queries)

\* C8 amended: the fallback queries follow the n parsed queries as far as the
\* cap of 10 leaves room: all three when generation fails or n <= 7, the
\* first 10 - n of them when n is 8 or 9, none from n = 10 on.
C8_FallbacksWithinCap ==
    gpc = "done" =>
        LET n == Len(gen_queries) IN
        /\ Len(all_queries) = Min(10, n + 3)
        /\ \A i \in 1..3 : n + i <= 10 => all_queries[n + i] = Fallbacks[i]
        /\ (GenerationRaises(gen_response) \/ n <= 7) =>
               \A i \in 1..3 : Fallbacks[i] \in Elements(all_queries)

C8_Witness ==
    /\ gpc = "done"
    /\ Len(gen_queries) = 9
    /\ all_queries[10] = Fallbacks[1]
    /\ Fallbacks[2] \notin Elements(all_queries)

\* The lines of a response, trimmed
TrimmedLines(text) == LET ls == split(text, "\n") IN [i \in 1..Len(ls) |-> strip(ls[i])]

\* C20: the queries parsed from a response are its lines, trimmed, in
\* response order, a line being kept if and only if its trimmed length is
\* at least 10.
\* Refuted: line 1806 keeps a line only if len(q.strip()) > 10, so a line of
\* exactly 10 characters is discarded.
C20_KeepsTenOrLonger ==
    (gpc = "done" /\ gen_response.kind = "text") =>
        gen_queries = SelectSeq(TrimmedLines(gen_response.content), LAMBDA q : Len(q) >= 10)

\* A form value that can be read as a number, and that number
IsNumeric(v) == v.t = "num" \/ (v.t = "str" /\ ParseFloat(v.s).ok)
NumberOf(v) == IF v.t = "num" THEN v.n ELSE ParseFloat(v.s).n

\* C21: the tier put into the prompt is luxury when the resolved property
\* value is a number greater than 5,000,000, premium when it is greater than
\* 3,000,000 and at most 5,000,000, and standard in every other case: a
\* smaller number, an absent or empty value, a value that is no number.
C21_TierByThresholds ==
    gpc # "idle" =>
        LET v == SynthPropertyValue(form_data) IN
        prompt.property_tier =
            IF IsNumeric(v) /\ NumberOf(v) > 5000000 THEN "luxury/high-value property over $5M"
            ELSE IF IsNumeric(v) /\ NumberOf(v) > 3000000 THEN "premium property over $3M"
            ELSE "standard residential property"

\* A value of exactly 5,000,000 has been classified, as premium
C21_Witness ==
    /\ gpc = "done"
    /\ SynthPropertyValue(form_data) = Num(5000000)
    /\ prompt.property_tier = "premium property over $3M"

\* C22: the loan amount generate_targeted_queries works with is a number,
\* zero when the record holds nothing usable, and that number is what the
\* second fallback query shows.
\* Refuted: line 1755 takes the field value as it is; only the property
\* value is passed through float(), and only for the tier.
C22_LoanAmountIsNumber ==
    gpc = "done" =>
        /\ loan_amount.t = "num"
        /\ \A i \in 1..Len(all_queries) :
              Take(all_queries[i], Len("lending criteria ")) = "lending criteria "
                  => all_queries[i] = "lending criteria " \o IntToStr(loan_amount.n) \o " loan"

----------------------------------------------------------------------------
(* Claims about the metric computation, checked under SpecMetrics *)

\* The computation has resolved a property value / an annual income
ValueResolved == mpc # "idle" /\ metrics.step >= 2
IncomeResolved == mpc # "idle" /\ metrics.step >= 5

\* C9: whenever the resolved property value is zero or negative the LVR is
\* computed, is 0, and nothing raised on the way to it; for a positive value
\* the LVR is the loan amount over the value times 100 (two decimals).
\* Refuted: between resolving the value (line 1548) and calculate_lvr
\* (line 1575) the consolidation block converts three fields with float(),
\* which raises on malformed text.
C9_LvrZeroNeverRaises ==
    ValueResolved =>
        /\ metrics.step >= 4
        /\ metrics.property_value <= 0 => metrics.lvr = 0
        /\ metrics.property_value > 0 =>
               metrics.lvr = Divide(metrics.loan_amount, metrics.property_value, 2).n

\* C10: whenever the resolved annual income is zero or negative the DTI is
\* computed, is 0, and nothing raised on the way to it; for a positive
\* income the DTI is total debt over annual income (two decimals).
\* Refuted: between resolving the income (line 1579) and the DTI (line 1628)
\* five liability fields are converted with float(), which raises on
\* malformed text.
C10_DtiZeroNeverRaises ==
    IncomeResolved =>
        /\ metrics.step = 8
        /\ metrics.annual_income <= 0 => metrics.dti = 0
        /\ metrics.annual_income > 0 =>
               metrics.dti = Divide(metrics.total_debt, metrics.annual_income, 1).n

\* C11: the metric computation never raises and always goes on to produce
\* LVR and DTI, whatever the loan, value, income and liability fields hold.
\* Refuted: every conversion is a bare float(), which raises ValueError on
\* text that is no number and TypeError on a list.
C11_NeverRaises ==
    mpc # "idle" => (~metrics.raised /\ metrics.step = 8)

\* The figure a field stands for where it can be read as a number, else 0
Figure(fd, key) == FloatOrZero(fd, key).n

\* The two refinance types of FormType
RefinanceTypes == {"refinance_application", "cashout_refinance"}

\* The loan amount a consolidating refinance is to be assessed on
ConsolidatedLoan(fd) ==
    Figure(fd, "current_loan_balance") + Figure(fd, "credit_card_limit_total")
        + Figure(fd, "personal_loans_balance")

\* C12: for a request of type refinance_application whose reason names debt
\* or consolidation, the effective loan amount is current_loan_balance +
\* credit_card_limit_total + personal_loans_balance and the LVR is taken on
\* it; the scenario 400000 + 15000 + 8000 on 750000 gives 423000 and 56.4.
\* Refuted: line 1559 compares the type with "refinance", which is no value
\* of FormType (the refinance type is "refinance_application"), so the
\* override only happens for "cashout_refinance".
C12_ConsolidatedLoanAmount ==
    (mpc = "done" /\ form_type = "refinance_application" /\ IsConsolidating(form_data)) =>
        /\ metrics.loan_amount = ConsolidatedLoan(form_data)
        /\ metrics.lvr = calculate_lvr(ConsolidatedLoan(form_data), metrics.property_value).n
        /\ form_data = RefinanceForm => (metrics.loan_amount = 423000 /\ metrics.lvr = 5640)

\* C13: in a consolidating refinance (either refinance type) the total debt
\* is the consolidated loan amount plus help_debt_balance, the absorbed
\* credit-card and personal-loan amounts counted once.
\* Refuted for refinance_application, which line 1605 does not take for a
\* refinance either: the loan amount is not overridden and every liability
\* is added to it.
C13_ConsolidatedTotalDebt ==
    (mpc = "done" /\ form_type \in RefinanceTypes /\ IsConsolidating(form_data)) =>
        metrics.total_debt = ConsolidatedLoan(form_data) + Figure(form_data, "help_debt_balance")

\* The credit-card figure: credit_card_limit_total, else credit_card_limit
CreditCardFigure(fd) ==
    IF Truthy(Get(fd, "credit_card_limit_total"))
    THEN Figure(fd, "credit_card_limit_total") ELSE Figure(fd, "credit_card_limit")

\* C14: for every application that is not a consolidating refinance, once
\* the total debt is computed it is the resolved loan amount plus the credit
\* card, personal loan, car loan, other loan and education debt figures of
\* the record, an absent one counting as zero; loan_amount 550000 on
\* property_value 750000 with income 120000 and no liabilities gives LVR
\* 73.33 and DTI 4.58.
C14_TotalDebtAllLiabilities ==
    (mpc = "done" /\ ~(form_type \in RefinanceTypes /\ IsConsolidating(form_data))) =>
        /\ metrics.total_debt =
               Float(OrChain(form_data, LoanCandidates)).n + CreditCardFigure(form_data)
               + Figure(form_data, "personal_loans_balance")
               + Figure(form_data, "car_loan_balance")
               + Figure(form_data, "other_loan_balance")
               + Figure(form_data, "help_debt_balance")
        /\ form_data = PurchaseForm => (metrics.lvr = 7333 /\ metrics.dti = 458)

C14_Witness ==
    /\ mpc = "done"
    /\ form_type = "construction_loan"
    /\ form_data = ConstructionForm
    /\ metrics.total_debt = 620000
    /\ metrics.car_loan_debt = 20000

NotProvided(fd, keys) == \A i \in 1..Len(keys) : Get(fd, keys[i]) \in {None, Str("")}

\* C19: a loan amount, property value or income that the record does not
\* provide is not shown as a zero figure in the formatted loan amount,
\* property value, LVR and DTI handed to the generation step.
\* Refuted: the `or 0` of the resolution chains makes a missing figure 0.0
\* and lines 1640-1643 format it like any other number.
C19_NotProvidedNotZero ==
    mpc = "done" =>
        /\ NotProvided(form_data, LoanCandidates) => chain_input.loan_amount # "$0.00"
        /\ NotProvided(form_data, ValueCandidates) => chain_input.property_value # "$0.00"
        /\ (NotProvided(form_data, LoanCandidates) \/ NotProvided(form_data, ValueCandidates))
               => chain_input.lvr # "0.00%"
        /\ NotProvided(form_data, IncomeCandidates) => chain_input.dti # "0.00x"

\* C23: loan amount and value base come from the fields of the record's own
\* application type: a refinance record is assessed on current_loan_balance
\* and estimated_property_value, a construction record on
\* estimated_completion_value, whatever other types' fields it carries.
\* Refuted: lines 1540-1555 probe one list of names for every type, with
\* loan_amount and property_value first.
C23_OwnTypeFieldsOnly ==
    mpc = "done" =>
        /\ (form_type = "refinance_application"
              /\ Truthy(Get(form_data, "estimated_property_value")))
               => metrics.property_value = Figure(form_data, "estimated_property_value")
        /\ (form_type = "refinance_application" /\ ~IsConsolidating(form_data)
              /\ Truthy(Get(form_data, "current_loan_balance")))
               => metrics.loan_amount = Figure(form_data, "current_loan_balance")
        /\ (form_type = "construction_loan"
              /\ Truthy(Get(form_data, "estimated_completion_value")))
               => metrics.property_value = Figure(form_data, "estimated_completion_value")

\* The income fields of a record that hold something, in the fixed order
PresentIncome(fd) == SelectSeq(IncomeCandidates, LAMBDA key : Truthy(Get(fd, key)))

CashOutFigure(fd) ==
    IF Truthy(Get(fd, "cash_out_amount_requested"))
    THEN Figure(fd, "cash_out_amount_requested") ELSE Figure(fd, "cash_out_amount")

\* C25: in a consolidating refinance of either type a cash-out amount in the
\* record is part of the effective loan amount.
\* Refuted: line 1569 sets cash_out = 0.0 and no field of the record is read
\* for it.
C25_CashOutAdded ==
    (mpc = "done" /\ form_type \in RefinanceTypes /\ IsConsolidating(form_data)) =>
        metrics.loan_amount = ConsolidatedLoan(form_data) + CashOutFigure(form_data)

----------------------------------------------------------------------------
(* Properties of retrieve_docs *)

\* C15: retrieve_docs never raises; for an empty query it returns the empty
\* list without calling the retriever; otherwise it calls the retriever
\* once and returns the retriever's list as it is (same chunks, same order,
\* repeats and more than 30 chunks included), and the empty list when the
\* retriever raised or returned nothing.
C15_RawListOrEmpty ==
    /\ lpc # "raised"
    /\ lpc = "done" =>
         IF legacy_query = ""
         THEN legacy_calls = 0 /\ legacy_return = <<>>
         ELSE /\ legacy_calls = 1
              /\ legacy_results.kind = "list" => legacy_return = legacy_results.docs
              /\ legacy_results.kind \in {"throw", "none"} => legacy_return = <<>>

C15_Witness ==
    /\ lpc = "done"
    /\ legacy_calls = 1
    /\ Len(legacy_return) > MaxDocs
    /\ legacy_return = MasterList

----------------------------------------------------------------------------
(* Properties of one request *)

\* The calls a request is to make: one generation call, then one retrieval
\* call per synthesized query, in query order
ExpectedCalls ==
    IF gpc # "done" THEN <<>>
    ELSE <<(<<"generate", form_type>>)>>
         \o [i \in 1..Len(all_queries) |-> <<"retrieve", all_queries[i]>>]

\* C17: at every moment of a request the calls made so far are the first
\* ones of: one generation call, then one retrieval call per synthesized
\* query in query order; the loop has made exactly one call per query it
\* has passed (none retried, none skipped, failing or not, 30 chunks
\* accumulated or not), and when the retrieval returns all have been made.
C17_OneCallPerQueryInOrder ==
    /\ Len(calls) <= Len(ExpectedCalls)
    /\ \A j \in 1..Len(calls) : calls[j] = ExpectedCalls[j]
    /\ rpc = "loop" => Len(calls) = 1 + idx
    /\ rpc = "done" => Len(calls) = 1 + Len(all_queries)

C17_Witness ==
    /\ rpc = "done"
    /\ Len(all_queries) = 5
    /\ responses[1] = Outcome("list", Window(1, OverReturn))
    /\ responses[2] = Outcome("list", Window(OverReturn + 1, OverReturn))
    /\ responses[3].kind = "throw"
    /\ responses[4].kind = "list"
    /\ Len(result) = MaxDocs
    /\ calls[4] = <<"retrieve", all_queries[3]>>
    /\ calls[6] = <<"retrieve", all_queries[5]>>

----------------------------------------------------------------------------
(* Properties of concurrent and consecutive invocations *)

\* C18: whatever the interleaving with another invocation, and whatever an
\* earlier invocation has seen, an invocation of enhanced_retrieve_docs
\* returns what it returns when run alone on the same retriever responses.
C18_BatchesIndependent ==
    \A b \in Invocations :
        batches[b].pc = "done" => batches[b].result = BatchResult(batches[b].responses, DefaultK)

\* An invocation has returned a chunk whose key another invocation held in
\* its seen set while the first was running.
C18_Witness ==
    \E b \in Invocations :
        /\ batches[b].pc = "done"
        /\ \E i \in 1..Len(batches[b].result) :
              content_hash(batches[b].result[i]) \in batches[b].foreign
        /\ \E x \in Invocations \ {b} : batches[x].pc = "loop" /\ batches[x].idx = 1

----------------------------------------------------------------------------
(* Properties of the request handler after the retrieval *)

\* C26: when every query of a request failed or found nothing, the request
\* is not ended by that: no exception leaves the handler before the chain is
\* invoked, the metrics are computed from the record, the generation chain
\* gets the policy context "No relevant documents retrieved.", and the
\* response reports 0 documents used.
C26_EmptyRetrievalStillAnswers ==
    (retriever = "handler" /\ rpc = "done" /\ result = <<>>) =>
        /\ apc # "metrics_raised"
        /\ apc \in {"chain", "replied", "chain_raised"} =>
              /\ mpc = "done"
              /\ chain_input = ChainInput(compute_metrics(form_data, form_type))
              /\ policy_context = "No relevant documents retrieved."
        /\ apc = "replied" => documents_used = 0

C26_Witness ==
    /\ retriever = "handler"
    /\ apc = "replied"
    /\ result = <<>>
    /\ \E i \in 1..Len(responses) : responses[i].kind = "throw"
    /\ \E i \in 1..Len(responses) : responses[i].kind = "list" /\ responses[i].docs = <<>>
    /\ policy_context = "No relevant documents retrieved."
    /\ documents_used = 0

\* C27: processing leaves its inputs as they are: once the request is
\* received no step changes the application record or its type, the query
\* list stays as generated, and the retrieval does not change the list of
\* queries it was given.
C27_InputsUnchanged ==
    [][/\ gpc # "idle" => (form_data' = form_data /\ form_type' = form_type)
       /\ gpc = "done" => all_queries' = all_queries
       /\ rpc # "idle" => queries' = queries]_vars

C27_Witness ==
    /\ apc = "replied"
    /\ form_type = "cashout_refinance"
    /\ form_data = RefinanceForm
    /\ queries = all_queries
    /\ Len(result) > 0
    /\ mpc = "done"

----------------------------------------------------------------------------
(* Properties of the prompt router *)

\* The template written for each form type
DedicatedPrompt ==
    [ft \in FormTypes |->
        CASE ft = "purchase_application" -> "PURCHASE_PROMPT"
          [] ft = "refinance_application" -> "REFINANCE_PROMPT"
          [] ft = "smsf_loan_purchase" -> "SMSF_PURCHASE_PROMPT"
          [] ft = "construction_loan" -> "CONSTRUCTION_PROMPT"
          [] ft = "cashout_refinance" -> "CASHOUT_PROMPT"
          [] ft = "commercial_property_loan" -> "COMMERCIAL_PROMPT"]

IsHandlerLabel(label) == \E ft \in FormTypes : label = FORM_TYPE_LABELS[ft]

\* C30: for each of the six form types the label the handler passes to the
\* chain selects that type's own template, and DEFAULT_PROMPT is selected
\* only for an empty label or a label the handler has for no form type.
\* Refuted: "SMSF Loan - Purchase" normalises to "smsf loan  purchase".
C30_HandlerLabelSelectsOwnPrompt ==
    \A i \in 1..Len(prompt_log) :
        LET call == prompt_log[i] IN
        /\ call.form_type \in FormTypes => call.prompt = DedicatedPrompt[call.form_type]
        /\ call.prompt = DEFAULT_PROMPT => (call.form_label = "" \/ ~IsHandlerLabel(call.form_label))

====
